---- MODULE Spec2Model ----
(***************************************************************************)
(* Model of the live interview session of App.tsx: the session status      *)
(* state machine, the playback scheduler driven by the channel's           *)
(* onmessage callback (cursor nextStartTimeRef, active set                 *)
(* activeSourcesRef, isModelTalking), the barge-in branch and the          *)
(* transcript aggregator updateTranscript, together with the capture       *)
(* callback onaudioprocess, the two analysis calls and the PCM codec.      *)
(*                                                                         *)
(* Time is counted in ticks of TickMs milliseconds.  Date.now() is         *)
(* now * TickMs; the currentTime of an AudioContext is the number of       *)
(* ticks since the context was created, and audio durations are whole      *)
(* ticks.                                                                  *)
(*                                                                         *)
(* The definitions follow the revision of App.tsx that keeps streamRef;    *)
(* the earlier revision has the same onmessage, onclose, onerror and       *)
(* updateTranscript.  An async handler is one action per run between two   *)
(* suspensions: onmessage is OnMessage up to await decodeAudioData and     *)
(* DecodeResolve or DecodeReject after it.                                 *)
(***************************************************************************)
EXTENDS Integers, Sequences, FiniteSets, TLC

\* ---------------------------------------------------------------- bounds
MaxSessions == 2
\* inbound messages delivered in the whole-application specification
MaxMsgs == 1
\* inbound messages delivered in the scheduler specification
MaxChunks == 3
MaxTime == 2
MaxDur == 2
\* clock ticks in one coalescing window
TicksPerWindow == 6
\* inbound messages delivered in the transcript specification
MaxFrags == 3
\* clock ticks the transcript specification lets pass
MaxWallTime == 7

\* samples in a frame of the codec specification (4096 in the program)
FrameSamples == 2
\* sample values are the multiples of 1 / SampleUnit ...
SampleUnit == 2
\* ... from -MaxAmplitude to MaxAmplitude, where 1 is full scale
MaxAmplitude == 2

\* ------------------------------------------------------------- constants
COALESCE_WINDOW == 3000
TickMs == COALESCE_WINDOW \div TicksPerWindow

Sessions == 1..MaxSessions
Durations == 1..MaxDur
Texts == {<<"five">>, <<"six">>}
NoError == "null"

VARIABLES
  status,          \* useState status
  error,           \* useState error
  transcript,      \* useState transcript
  isModelTalking,  \* useState isModelTalking
  nextStartTime,   \* nextStartTimeRef.current
  activeSources,   \* activeSourcesRef.current
  sessionRef,      \* sessionRef.current (0 is null)
  streamRef,       \* streamRef.current (0 is null)
  outputCtx,       \* outputAudioContextRef.current (0 is null)
  ctxStart,        \* tick at which each session's output context was created
  liveStreams,     \* microphone streams whose tracks are not stopped
  processors,      \* sessions whose onopen installed onaudioprocess
  sess,            \* per startInterview call: position and channel state
  started,         \* number of startInterview calls so far
  pending,         \* onmessage handlers suspended at the await
  endedQueue,      \* stopped sources whose 'ended' event is not delivered yet
  now,             \* real time in ticks
  msgCount,        \* inbound messages delivered so far
  intCount,        \* interrupted signals handled so far
  log,             \* every source passed to source.start, in that order
  isAnalyzing,     \* useState isAnalyzing: analyzeSkillGraph is in flight
  isPreprocessing, \* useState isPreprocessing: analyzeArtifacts is in flight
  skillGraph,      \* useState skillGraph ("null" or "graph")
  preInterviewReport, \* useState preInterviewReport ("null" or "report")
  inputData,       \* the captured frame handed to createBlob
  pcmBlob,         \* the bytes createBlob made of it
  audioBuffer,     \* the samples decode and decodeAudioData made of the bytes
  lastAct          \* what the last step did

vars == <<status, error, transcript, isModelTalking, nextStartTime,
          activeSources, sessionRef, streamRef, outputCtx, ctxStart,
          liveStreams, processors, sess, started, pending, endedQueue,
          now, msgCount, intCount, log, isAnalyzing, isPreprocessing,
          skillGraph, preInterviewReport, inputData, pcmBlob, audioBuffer,
          lastAct>>

Max(a, b) == IF a >= b THEN a ELSE b

\* Date.now()
DateNow == now * TickMs

\* ctx.currentTime of the output context created by session c
CurrentTime(c) == now - ctxStart[c]

\* ------------------------------------------------------------ the record
\* of the last step
Act(kind, sid) ==
  [kind |-> kind, sid |-> sid, enq |-> FALSE, first |-> FALSE,
   intr |-> FALSE, nstopped |-> 0, dropped |-> 0, to |-> 0]

\* ------------------------------------------------------ updateTranscript
updateTranscriptInclusive(prev, role, text, t) ==
  IF Len(prev) > 0 /\ prev[Len(prev)].role = role
       /\ t - prev[Len(prev)].timestamp <= COALESCE_WINDOW
    THEN [prev EXCEPT ![Len(prev)].text = @ \o <<" ">> \o text]
    ELSE Append(prev, [role |-> role, text |-> text, timestamp |-> t])
updateTranscriptSliding(prev, role, text, t) ==
  IF Len(prev) > 0 /\ prev[Len(prev)].role = role
       /\ t - prev[Len(prev)].timestamp < COALESCE_WINDOW
    THEN [prev EXCEPT ![Len(prev)].text = @ \o <<" ">> \o text,
                      ![Len(prev)].timestamp = t]
    ELSE Append(prev, [role |-> role, text |-> text, timestamp |-> t])
updateTranscriptAnyRole(prev, role, text, t) ==
  IF Len(prev) > 0
       /\ t - prev[Len(prev)].timestamp < COALESCE_WINDOW
    THEN [prev EXCEPT ![Len(prev)].text = @ \o <<" ">> \o text]
    ELSE Append(prev, [role |-> role, text |-> text, timestamp |-> t])
updateTranscriptNoMerge(prev, role, text, t) ==
  Append(prev, [role |-> role, text |-> text, timestamp |-> t])
updateTranscriptLastOnly(prev, role, text, t) ==
  IF Len(prev) > 0 /\ prev[Len(prev)].role = role
       /\ t - prev[Len(prev)].timestamp < COALESCE_WINDOW
    THEN <<[prev[Len(prev)] EXCEPT !.text = @ \o <<" ">> \o text]>>
    ELSE Append(prev, [role |-> role, text |-> text, timestamp |-> t])
updateTranscript(prev, role, text, t) ==
  IF Len(prev) > 0 /\ prev[Len(prev)].role = role
       /\ t - prev[Len(prev)].timestamp < COALESCE_WINDOW
    THEN [prev EXCEPT ![Len(prev)].text = @ \o <<" ">> \o text]
    ELSE Append(prev, [role |-> role, text |-> text, timestamp |-> t])

\* onmessage, the transcription dispatch: output first, else input
Transcribe(prev, m, t) ==
  IF m.tr \in {"out", "both"}
    THEN updateTranscript(prev, "interviewer", m.text, t)
    ELSE IF m.tr = "in"
      THEN updateTranscript(prev, "candidate", m.text, t)
      ELSE prev

\* ------------------------------------------------------ scheduler pieces
\* onmessage before the await: the cursor is raised to the context's clock
CursorAtArrivalNoMax(nst, t) == t
CursorAtArrival(nst, t) == Max(nst, t)

\* AudioBufferSourceNode.start(when): a time in the past starts at once
SourceStart(when, t) == Max(when, t)

\* onmessage after the await: the cursor advances by the buffer's duration
AdvanceCursorStuck(nst, dur) == nst
AdvanceCursor(nst, dur) == nst + dur

\* the interrupted branch: the value the cursor is reset to
InterruptCursorKeep(nst) == nst
InterruptCursor(nst) == 0

\* ------------------------------------------------------------------ Init
Init ==
  /\ status = "IDLE"
  /\ error = NoError
  /\ transcript = <<>>
  /\ isModelTalking = FALSE
  /\ nextStartTime = 0
  /\ activeSources = {}
  /\ sessionRef = 0
  /\ streamRef = 0
  /\ outputCtx = 0
  /\ ctxStart = [s \in Sessions |-> 0]
  /\ liveStreams = {}
  /\ processors = {}
  /\ sess = [s \in Sessions |-> [pc |-> "none", chan |-> "none", opened |-> FALSE]]
  /\ started = 0
  /\ pending = {}
  /\ endedQueue = {}
  /\ now = 0
  /\ msgCount = 0
  /\ intCount = 0
  /\ log = <<>>
  /\ isAnalyzing = FALSE
  /\ isPreprocessing = FALSE
  /\ skillGraph = "null"
  /\ preInterviewReport = "null"
  /\ inputData = <<>>
  /\ pcmBlob = <<>>
  /\ audioBuffer = <<>>
  /\ lastAct = Act("init", 0)

schedVars == <<isModelTalking, nextStartTime, activeSources, pending,
               endedQueue, msgCount, intCount, log>>
codecVars == <<inputData, pcmBlob, audioBuffer>>
analysisVars == <<isAnalyzing, isPreprocessing, skillGraph, preInterviewReport>>
sessVars == <<sessionRef, streamRef, outputCtx, ctxStart, liveStreams,
              processors, sess, started>>

\* --------------------------------------------------------- startInterview
\* startInterview up to its first await: the API key check, CONNECTING,
\* and two new AudioContexts (a new context's currentTime starts at 0)
StartInterview(hasKey) ==
  /\ status = "IDLE"
  /\ started < MaxSessions
  /\ IF ~hasKey
       THEN /\ error' = "Critical Error: API Key not detected."
            /\ lastAct' = Act("startNoKey", 0)
            /\ UNCHANGED <<status, outputCtx, ctxStart, sess, started>>
       ELSE /\ status' = "CONNECTING"
            /\ error' = NoError
            /\ started' = started + 1
            /\ outputCtx' = started + 1
            /\ ctxStart' = [ctxStart EXCEPT ![started + 1] = now]
            /\ sess' = [sess EXCEPT ![started + 1].pc = "media"]
            /\ lastAct' = Act("start", started + 1)
  /\ UNCHANGED <<transcript, sessionRef, streamRef, liveStreams, processors, now>>
  /\ UNCHANGED schedVars
  /\ UNCHANGED analysisVars
  /\ UNCHANGED codecVars

\* getUserMedia resolves: streamRef is assigned and ai.live.connect is called
MediaResolve(i) ==
  /\ sess[i].pc = "media"
  /\ streamRef' = i
  /\ liveStreams' = liveStreams \cup {i}
  /\ sess' = [sess EXCEPT ![i].pc = "connect", ![i].chan = "connecting"]
  /\ lastAct' = Act("mediaResolve", i)
  /\ UNCHANGED <<status, error, transcript, sessionRef, outputCtx, ctxStart,
                 processors, started, now>>
  /\ UNCHANGED schedVars
  /\ UNCHANGED analysisVars
  /\ UNCHANGED codecVars

\* getUserMedia (or resume) rejects: the catch block of startInterview
MediaRejectSwallowed(i) ==
  /\ sess[i].pc = "media"
  /\ status' = "IDLE"
  /\ sess' = [sess EXCEPT ![i].pc = "failed"]
  /\ lastAct' = Act("catch", i)
  /\ UNCHANGED <<error, transcript, sessionRef, streamRef, outputCtx, ctxStart,
                 liveStreams, processors, started, now>>
  /\ UNCHANGED schedVars
  /\ UNCHANGED analysisVars
  /\ UNCHANGED codecVars
MediaReject(i) ==
  /\ sess[i].pc = "media"
  /\ error' = "getUserMedia failed"
  /\ status' = "IDLE"
  /\ sess' = [sess EXCEPT ![i].pc = "failed"]
  /\ lastAct' = Act("catch", i)
  /\ UNCHANGED <<transcript, sessionRef, streamRef, outputCtx, ctxStart,
                 liveStreams, processors, started, now>>
  /\ UNCHANGED schedVars
  /\ UNCHANGED analysisVars
  /\ UNCHANGED codecVars

\* callbacks.onopen
ChannelOpen(i) ==
  /\ sess[i].chan = "connecting"
  /\ status' = "ACTIVE"
  /\ processors' = processors \cup {i}
  /\ sess' = [sess EXCEPT ![i].chan = "open", ![i].opened = TRUE]
  /\ lastAct' = Act("onopen", i)
  /\ UNCHANGED <<error, transcript, sessionRef, streamRef, outputCtx, ctxStart,
                 liveStreams, started, now>>
  /\ UNCHANGED schedVars
  /\ UNCHANGED analysisVars
  /\ UNCHANGED codecVars

\* await sessionPromise resolves: sessionRef.current = session
ConnectResolve(i) ==
  /\ sess[i].pc = "connect"
  /\ sess[i].opened
  /\ sessionRef' = i
  /\ sess' = [sess EXCEPT ![i].pc = "done"]
  /\ lastAct' = Act("connectResolve", i)
  /\ UNCHANGED <<status, error, transcript, streamRef, outputCtx, ctxStart,
                 liveStreams, processors, started, now>>
  /\ UNCHANGED schedVars
  /\ UNCHANGED analysisVars
  /\ UNCHANGED codecVars

\* await sessionPromise rejects: the catch block of startInterview
ConnectReject(i) ==
  /\ sess[i].pc = "connect"
  /\ ~sess[i].opened
  /\ error' = "connect failed"
  /\ status' = "IDLE"
  /\ sess' = [sess EXCEPT ![i].pc = "failed",
                          ![i].chan = IF @ = "connecting" THEN "closed" ELSE @]
  /\ lastAct' = Act("catch", i)
  /\ UNCHANGED <<transcript, sessionRef, streamRef, outputCtx, ctxStart,
                 liveStreams, processors, started, now>>
  /\ UNCHANGED schedVars
  /\ UNCHANGED analysisVars
  /\ UNCHANGED codecVars

\* ----------------------------------------------------------- endInterview
\* sessionRef.current.close(): an open channel starts closing
CloseSession(s, ref) ==
  IF ref # 0 /\ s[ref].chan = "open" THEN [s EXCEPT ![ref].chan = "closing"] ELSE s

\* streamRef.current.getTracks().forEach(t => t.stop())
StopTracks(live, ref) == live \ {ref}

\* the value endInterview leaves in status
EndStatus(st) == "ENDED"

\* the TERMINATE button, shown while CONNECTING, ACTIVE or ENDED and no
\* skill graph is displayed
EndInterview ==
  /\ status \in {"CONNECTING", "ACTIVE", "ENDED"}
  /\ skillGraph = "null"
  /\ sess' = CloseSession(sess, sessionRef)
  /\ liveStreams' = StopTracks(liveStreams, streamRef)
  /\ sessionRef' = 0
  /\ status' = EndStatus(status)
  /\ lastAct' = Act("endInterview", 0)
  /\ UNCHANGED <<error, transcript, streamRef, outputCtx, ctxStart, processors,
                 started, now>>
  /\ UNCHANGED schedVars
  /\ UNCHANGED analysisVars
  /\ UNCHANGED codecVars

\* callbacks.onerror: sets the message and calls endInterview
ChannelError(i) ==
  /\ sess[i].chan \in {"connecting", "open"}
  /\ error' = "Connection Error. The session has been interrupted."
  /\ sess' = [CloseSession(sess, sessionRef) EXCEPT ![i].chan = "closing"]
  /\ liveStreams' = StopTracks(liveStreams, streamRef)
  /\ sessionRef' = 0
  /\ status' = EndStatus(status)
  /\ lastAct' = Act("onerror", i)
  /\ UNCHANGED <<transcript, streamRef, outputCtx, ctxStart, processors,
                 started, now>>
  /\ UNCHANGED schedVars
  /\ UNCHANGED analysisVars
  /\ UNCHANGED codecVars

\* callbacks.onclose
ChannelClose(i) ==
  /\ sess[i].chan \in {"open", "closing"}
  /\ status' = "ENDED"
  /\ sess' = [sess EXCEPT ![i].chan = "closed"]
  /\ lastAct' = Act("onclose", i)
  /\ UNCHANGED <<error, transcript, sessionRef, streamRef, outputCtx, ctxStart,
                 liveStreams, processors, started, now>>
  /\ UNCHANGED schedVars
  /\ UNCHANGED analysisVars
  /\ UNCHANGED codecVars

\* the Return to Dashboard button, shown while ENDED and no skill graph is
\* displayed
ReturnToDashboard ==
  /\ status = "ENDED"
  /\ skillGraph = "null"
  /\ transcript' = <<>>
  /\ status' = "IDLE"
  /\ preInterviewReport' = "null"
  /\ lastAct' = Act("dashboard", 0)
  /\ UNCHANGED <<error, now, isAnalyzing, isPreprocessing, skillGraph>>
  /\ UNCHANGED sessVars
  /\ UNCHANGED schedVars
  /\ UNCHANGED codecVars

\* ------------------------------------------------------------------ codec
\* A sample is an integer n standing for n / SampleUnit; a 16-bit value v
\* read back stands for v / 32768.
SampleValues == (-MaxAmplitude * SampleUnit)..(MaxAmplitude * SampleUnit)
Frames == [1..FrameSamples -> SampleValues]

Int16Max == 32767
Int16Min == -32768
Int16Modulus == 65536

\* num / den rounded to the nearest integer
Round(num, den) == (2 * num + den) \div (2 * den)

\* a sample clamped to [-1.0, 1.0]
ClampNone(n) == n
Clamp(n) ==
  IF n > SampleUnit THEN SampleUnit
  ELSE IF n < -SampleUnit THEN -SampleUnit ELSE n

\* a number stored in a signed 16-bit cell: the low 16 bits are kept
ToInt16(v) == ((v - Int16Min) % Int16Modulus) + Int16Min

\* encode, one sample: clamped, scaled to the signed 16-bit range
EncodeSample(n) ==
  LET c == Clamp(n)
  IN  ToInt16(IF c >= 0 THEN Round(c * Int16Max, SampleUnit)
                        ELSE Round(c * (-Int16Min), SampleUnit))

\* a 16-bit value as two bytes, little-endian
Bytes(v) == LET u == v % Int16Modulus IN <<u % 256, u \div 256>>

\* createBlob: the frame as 16-bit little-endian PCM
createBlob(f) ==
  [j \in 1..(2 * Len(f)) |-> Bytes(EncodeSample(f[(j + 1) \div 2]))[2 - (j % 2)]]

\* decode and decodeAudioData: the bytes read as 16-bit little-endian PCM
decodeAudioData(b) ==
  [k \in 1..(Len(b) \div 2) |->
     LET u == b[2 * k - 1] + 256 * b[2 * k]
     IN  IF u > Int16Max THEN u - Int16Modulus ELSE u]

\* the capture callback encodes the frame it was handed
CreateBlob ==
  /\ inputData # <<>>
  /\ pcmBlob = <<>>
  /\ pcmBlob' = createBlob(inputData)
  /\ lastAct' = Act("createBlob", 0)
  /\ UNCHANGED <<status, error, transcript, now, inputData, audioBuffer>>
  /\ UNCHANGED sessVars
  /\ UNCHANGED schedVars
  /\ UNCHANGED analysisVars

\* the bytes are decoded back into samples
DecodeAudioData ==
  /\ pcmBlob # <<>>
  /\ audioBuffer = <<>>
  /\ audioBuffer' = decodeAudioData(pcmBlob)
  /\ lastAct' = Act("decodeAudioData", 0)
  /\ UNCHANGED <<status, error, transcript, now, inputData, pcmBlob>>
  /\ UNCHANGED sessVars
  /\ UNCHANGED schedVars
  /\ UNCHANGED analysisVars

\* --------------------------------------------------------- onaudioprocess
\* the session whose sendRealtimeInput the capture callback calls with the
\* encoded frame: the one in sessionRef.current, none (0) when it is null
FrameTarget(ref, i) == ref

\* scriptProcessor.onaudioprocess of the processor installed by session i's
\* onopen: one complete frame of 4096 samples has been captured.  The
\* processor is never disconnected and its context never closed, so it goes
\* on firing after the session ended.
AudioProcess(i) ==
  /\ i \in processors
  /\ lastAct' = [Act("audioprocess", i) EXCEPT !.to = FrameTarget(sessionRef, i)]
  /\ UNCHANGED <<status, error, transcript, now>>
  /\ UNCHANGED sessVars
  /\ UNCHANGED schedVars
  /\ UNCHANGED analysisVars
  /\ UNCHANGED codecVars

\* ------------------------------------------------------- analysis calls
\* the Analyze Skill Graph button, shown while ENDED with no graph displayed
\* and enabled when no call is in flight and the transcript has two segments:
\* analyzeSkillGraph up to await generateContent
AnalyzeSkillGraph ==
  /\ status = "ENDED"
  /\ skillGraph = "null"
  /\ ~isAnalyzing
  /\ Len(transcript) >= 2
  /\ isAnalyzing' = TRUE
  /\ error' = NoError
  /\ lastAct' = Act("analyzeSkillGraph", 0)
  /\ UNCHANGED <<status, transcript, now, isPreprocessing, skillGraph,
                 preInterviewReport>>
  /\ UNCHANGED sessVars
  /\ UNCHANGED schedVars
  /\ UNCHANGED codecVars

\* generateContent resolved and its text parsed: setSkillGraph, then finally
SkillGraphResolve ==
  /\ isAnalyzing
  /\ skillGraph' = "graph"
  /\ isAnalyzing' = FALSE
  /\ lastAct' = Act("skillGraphResolve", 0)
  /\ UNCHANGED <<status, error, transcript, now, isPreprocessing,
                 preInterviewReport>>
  /\ UNCHANGED sessVars
  /\ UNCHANGED schedVars
  /\ UNCHANGED codecVars

\* generateContent rejected or JSON.parse threw: the catch block, then finally
SkillGraphRejectRetry ==
  /\ isAnalyzing
  /\ error' = "Analysis failed. Sample size might be too small."
  /\ isAnalyzing' = TRUE
  /\ lastAct' = Act("skillGraphReject", 0)
  /\ UNCHANGED <<status, transcript, now, isPreprocessing, skillGraph,
                 preInterviewReport>>
  /\ UNCHANGED sessVars
  /\ UNCHANGED schedVars
  /\ UNCHANGED codecVars
SkillGraphReject ==
  /\ isAnalyzing
  /\ error' = "Analysis failed. Sample size might be too small."
  /\ isAnalyzing' = FALSE
  /\ lastAct' = Act("skillGraphReject", 0)
  /\ UNCHANGED <<status, transcript, now, isPreprocessing, skillGraph,
                 preInterviewReport>>
  /\ UNCHANGED sessVars
  /\ UNCHANGED schedVars
  /\ UNCHANGED codecVars

\* the Back to Transcript button, shown with the skill graph
BackToTranscript ==
  /\ status \in {"CONNECTING", "ACTIVE", "ENDED"}
  /\ skillGraph = "graph"
  /\ skillGraph' = "null"
  /\ lastAct' = Act("backToTranscript", 0)
  /\ UNCHANGED <<status, error, transcript, now, isAnalyzing, isPreprocessing,
                 preInterviewReport>>
  /\ UNCHANGED sessVars
  /\ UNCHANGED schedVars
  /\ UNCHANGED codecVars

\* the Analyze button of the setup screen, shown while IDLE with no report
\* and enabled when no call is in flight and a resume text is entered:
\* analyzeArtifacts up to await generateContent, or to its API key return
AnalyzeArtifacts(hasKey) ==
  /\ status = "IDLE"
  /\ preInterviewReport = "null"
  /\ ~isPreprocessing
  /\ IF ~hasKey
       THEN /\ error' = "API Key missing. Please check your environment."
            /\ lastAct' = Act("artifactsNoKey", 0)
            /\ UNCHANGED isPreprocessing
       ELSE /\ isPreprocessing' = TRUE
            /\ error' = NoError
            /\ lastAct' = Act("analyzeArtifacts", 0)
  /\ UNCHANGED <<status, transcript, now, isAnalyzing, skillGraph,
                 preInterviewReport>>
  /\ UNCHANGED sessVars
  /\ UNCHANGED schedVars
  /\ UNCHANGED codecVars

\* generateContent resolved and its text parsed: setPreInterviewReport
ArtifactsResolve ==
  /\ isPreprocessing
  /\ preInterviewReport' = "report"
  /\ isPreprocessing' = FALSE
  /\ lastAct' = Act("artifactsResolve", 0)
  /\ UNCHANGED <<status, error, transcript, now, isAnalyzing, skillGraph>>
  /\ UNCHANGED sessVars
  /\ UNCHANGED schedVars
  /\ UNCHANGED codecVars

\* generateContent rejected or JSON.parse threw: the catch block, then finally
ArtifactsReject ==
  /\ isPreprocessing
  /\ error' = "Analysis failed. Proceeding without report."
  /\ isPreprocessing' = FALSE
  /\ lastAct' = Act("artifactsReject", 0)
  /\ UNCHANGED <<status, transcript, now, isAnalyzing, skillGraph,
                 preInterviewReport>>
  /\ UNCHANGED sessVars
  /\ UNCHANGED schedVars
  /\ UNCHANGED codecVars

\* --------------------------------------------------------------- onmessage
\* what decoding a chunk comes to: a buffer with a duration, decode()
\* throwing, or decodeAudioData rejecting
DecodeOutcomes == {"ok", "throw", "reject"}

\* the inbound messages: the audio part (absent, or a chunk with its decode
\* outcome and duration), the transcription part and the interrupted flag
Messages ==
  {m \in [audio : {"none"} \cup DecodeOutcomes, dur : Durations,
          tr : {"none", "out", "in", "both"}, text : Texts, intr : BOOLEAN] :
     /\ (m.audio # "ok" => m.dur = 1)
     /\ (m.tr = "none" => m.text = <<"five">>)}

\* the messages the whole-application specification delivers: a chunk that
\* decodes, with or without the interrupted flag, a chunk whose decode
\* rejects, one output transcription, or the interrupted flag alone
SessionMessages ==
  {m \in Messages :
     /\ m.dur = 1
     /\ m.text = <<"five">>
     /\ \/ m.audio = "ok" /\ m.tr = "none"
        \/ m.audio = "reject" /\ m.tr = "none" /\ ~m.intr
        \/ m.audio = "none" /\ m.tr = "out" /\ ~m.intr
        \/ m.audio = "none" /\ m.tr = "none" /\ m.intr}

\* the messages the scheduler specification delivers: audio with or without
\* the interrupted flag, the flag alone, or one transcript fragment alone
AudioMessages ==
  {m \in Messages :
     \/ m.tr = "none" /\ (m.audio # "none" \/ m.intr)
     \/ m.audio = "none" /\ ~m.intr /\ m.tr = "in" /\ m.text = <<"five">>}

\* onmessage after the audio branch: the transcription dispatch and the
\* interrupted branch, given the scheduler state the audio branch left
HandleRest(m, act, srcs, nst, talking) ==
  /\ transcript' = Transcribe(transcript, m, DateNow)
  /\ IF m.intr
       THEN /\ activeSources' = {}
            /\ endedQueue' = endedQueue \cup srcs
            /\ nextStartTime' = InterruptCursor(nst)
            /\ isModelTalking' = FALSE
            /\ intCount' = intCount + 1
            /\ lastAct' = [act EXCEPT !.intr = TRUE, !.nstopped = Cardinality(srcs),
                                      !.dropped = nextStartTime]
       ELSE /\ activeSources' = srcs
            /\ nextStartTime' = nst
            /\ isModelTalking' = talking
            /\ lastAct' = act
            /\ UNCHANGED <<endedQueue, intCount>>

\* onmessage from its call to its first suspension or its end.  With audio
\* the handler marks the agent as talking, raises the cursor and evaluates
\* decode(): a throw ends the handler there, otherwise it suspends at
\* await decodeAudioData(...).  Without audio it runs to its end.
OnMessage(i, m) ==
  /\ sess[i].chan = "open"
  /\ msgCount' = msgCount + 1
  /\ IF m.audio = "none"
       THEN /\ HandleRest(m, Act("message", i), activeSources, nextStartTime,
                          isModelTalking)
            /\ UNCHANGED pending
       ELSE /\ isModelTalking' = TRUE
            /\ nextStartTime' = CursorAtArrival(nextStartTime, CurrentTime(outputCtx))
            /\ IF m.audio = "throw"
                 THEN /\ lastAct' = Act("decodeThrow", i)
                      /\ UNCHANGED pending
                 ELSE /\ lastAct' = Act(IF m.audio = "ok" THEN "arrive"
                                                            ELSE "arriveFailing", i)
                      /\ pending' = pending \cup
                           {[id |-> msgCount + 1, sid |-> i, ctx |-> outputCtx,
                             epoch |-> intCount, m |-> m]}
            /\ UNCHANGED <<transcript, activeSources, endedQueue, intCount>>
  /\ UNCHANGED <<status, error, now, log>>
  /\ UNCHANGED sessVars
  /\ UNCHANGED analysisVars
  /\ UNCHANGED codecVars

\* the channel delivers a message, while the specification's count allows
DeliverMessage(i, m) ==
  /\ msgCount < MaxMsgs
  /\ OnMessage(i, m)

DeliverChunk(i, m) ==
  /\ msgCount < MaxChunks
  /\ OnMessage(i, m)

DeliverFragment(i, m) ==
  /\ msgCount < MaxFrags
  /\ OnMessage(i, m)

\* TRUE for the first source started after an interrupted signal
FirstAfterInterrupt ==
  /\ intCount > 0
  /\ \A k \in 1..Len(log) : log[k].enqEpoch # intCount

\* the source the handler p creates and starts when its decode resolves
NewSource(p) ==
  [id |-> p.id, ctx |-> p.ctx, epoch |-> p.epoch, enqEpoch |-> intCount,
   when |-> nextStartTime,
   start |-> SourceStart(nextStartTime, CurrentTime(p.ctx)),
   dur |-> p.m.dur]

\* onmessage resumed after await decodeAudioData(...) resolved: the source
\* is started at the cursor, the cursor advances, the source joins the
\* active set, then the transcription and interrupted branches run
DecodeResolve(p) ==
  /\ p \in pending
  /\ p.m.audio = "ok"
  /\ pending' = pending \ {p}
  /\ log' = Append(log, NewSource(p))
  /\ HandleRest(p.m,
                [Act("enqueue", p.sid) EXCEPT !.enq = TRUE,
                                              !.first = FirstAfterInterrupt],
                activeSources \cup {NewSource(p)},
                AdvanceCursor(nextStartTime, p.m.dur),
                isModelTalking)
  /\ UNCHANGED <<status, error, now, msgCount>>
  /\ UNCHANGED sessVars
  /\ UNCHANGED analysisVars
  /\ UNCHANGED codecVars

\* await decodeAudioData(...) rejected: the handler ends with the exception
DecodeReject(p) ==
  /\ p \in pending
  /\ p.m.audio = "reject"
  /\ pending' = pending \ {p}
  /\ lastAct' = Act("decodeReject", p.sid)
  /\ UNCHANGED <<status, error, transcript, isModelTalking, nextStartTime,
                 activeSources, endedQueue, now, msgCount, intCount, log>>
  /\ UNCHANGED sessVars
  /\ UNCHANGED analysisVars
  /\ UNCHANGED codecVars

\* source.onended: the source leaves the active set and the talking flag
\* drops when the set is empty
OnEndedAlways(s) ==
  /\ activeSources' = activeSources \ {s}
  /\ endedQueue' = endedQueue \ {s}
  /\ isModelTalking' = FALSE
  /\ UNCHANGED <<status, error, transcript, nextStartTime, pending, now,
                 msgCount, intCount, log>>
  /\ UNCHANGED sessVars
  /\ UNCHANGED analysisVars
  /\ UNCHANGED codecVars
OnEnded(s) ==
  /\ activeSources' = activeSources \ {s}
  /\ endedQueue' = endedQueue \ {s}
  /\ isModelTalking' = IF activeSources \ {s} = {} THEN FALSE ELSE isModelTalking
  /\ UNCHANGED <<status, error, transcript, nextStartTime, pending, now,
                 msgCount, intCount, log>>
  /\ UNCHANGED sessVars
  /\ UNCHANGED analysisVars
  /\ UNCHANGED codecVars

\* a source that played to the end of its buffer fires 'ended'
SourceEnded(s) ==
  /\ s \in activeSources
  /\ CurrentTime(s.ctx) >= s.start + s.dur
  /\ lastAct' = Act("ended", 0)
  /\ OnEnded(s)

\* a source stopped by the interrupted branch fires 'ended'
StoppedEnded(s) ==
  /\ s \in endedQueue
  /\ lastAct' = Act("stoppedEnded", 0)
  /\ OnEnded(s)

\* time passes
TimePasses ==
  /\ now' = now + 1
  /\ lastAct' = Act("tick", 0)
  /\ UNCHANGED <<status, error, transcript>>
  /\ UNCHANGED sessVars
  /\ UNCHANGED schedVars
  /\ UNCHANGED analysisVars
  /\ UNCHANGED codecVars

Tick ==
  /\ now < MaxTime
  /\ TimePasses

\* time passes, up to the longer horizon of the transcript specification
WallTick ==
  /\ now < MaxWallTime
  /\ TimePasses

Next ==
  \/ \E k \in BOOLEAN : StartInterview(k)
  \/ \E i \in Sessions : MediaResolve(i)
  \/ \E i \in Sessions : MediaReject(i)
  \/ \E i \in Sessions : ChannelOpen(i)
  \/ \E i \in Sessions : ConnectResolve(i)
  \/ \E i \in Sessions : ConnectReject(i)
  \/ EndInterview
  \/ \E i \in Sessions : ChannelError(i)
  \/ \E i \in Sessions : ChannelClose(i)
  \/ ReturnToDashboard
  \/ \E i \in Sessions, m \in SessionMessages : DeliverMessage(i, m)
  \/ \E p \in pending : DecodeResolve(p)
  \/ \E p \in pending : DecodeReject(p)
  \/ \E s \in activeSources : SourceEnded(s)
  \/ \E s \in endedQueue : StoppedEnded(s)
  \/ Tick

Spec == Init /\ [][Next]_vars

\* ------------------------------------------------- one session's scheduler
\* The scheduler of one session: the state startInterview, onopen and the
\* resolved connect leave, then audio chunks, interrupted signals, decode
\* completions, 'ended' events and the passing of time.
InitSched ==
  /\ status = "ACTIVE"
  /\ error = NoError
  /\ transcript = <<>>
  /\ isModelTalking = FALSE
  /\ nextStartTime = 0
  /\ activeSources = {}
  /\ sessionRef = 1
  /\ streamRef = 1
  /\ outputCtx = 1
  /\ ctxStart = [s \in Sessions |-> 0]
  /\ liveStreams = {1}
  /\ processors = {1}
  /\ sess = [s \in Sessions |->
               IF s = 1 THEN [pc |-> "done", chan |-> "open", opened |-> TRUE]
                        ELSE [pc |-> "none", chan |-> "none", opened |-> FALSE]]
  /\ started = 1
  /\ pending = {}
  /\ endedQueue = {}
  /\ now = 0
  /\ msgCount = 0
  /\ intCount = 0
  /\ log = <<>>
  /\ isAnalyzing = FALSE
  /\ isPreprocessing = FALSE
  /\ skillGraph = "null"
  /\ preInterviewReport = "null"
  /\ inputData = <<>>
  /\ pcmBlob = <<>>
  /\ audioBuffer = <<>>
  /\ lastAct = Act("connectResolve", 1)

NextSched ==
  \/ \E i \in Sessions, m \in AudioMessages : DeliverChunk(i, m)
  \/ \E p \in pending : DecodeResolve(p)
  \/ \E p \in pending : DecodeReject(p)
  \/ \E s \in activeSources : SourceEnded(s)
  \/ \E s \in endedQueue : StoppedEnded(s)
  \/ Tick

SpecSched == InitSched /\ [][NextSched]_vars

\* -------------------------------------------------------- gapless enqueue
\* Chunks that decode, delivered back to back to an idle scheduler at the
\* reference time T0 = now, with a cursor left at or before T0; time does
\* not pass.
ChunkMessages ==
  {m \in Messages : m.audio = "ok" /\ m.tr = "none" /\ ~m.intr}

InitGapless ==
  /\ status = "ACTIVE"
  /\ error = NoError
  /\ transcript = <<>>
  /\ isModelTalking = FALSE
  /\ now \in 0..MaxTime
  /\ nextStartTime \in 0..now
  /\ activeSources = {}
  /\ sessionRef = 1
  /\ streamRef = 1
  /\ outputCtx = 1
  /\ ctxStart = [s \in Sessions |-> 0]
  /\ liveStreams = {1}
  /\ processors = {1}
  /\ sess = [s \in Sessions |->
               IF s = 1 THEN [pc |-> "done", chan |-> "open", opened |-> TRUE]
                        ELSE [pc |-> "none", chan |-> "none", opened |-> FALSE]]
  /\ started = 1
  /\ pending = {}
  /\ endedQueue = {}
  /\ msgCount = 0
  /\ intCount = 0
  /\ log = <<>>
  /\ isAnalyzing = FALSE
  /\ isPreprocessing = FALSE
  /\ skillGraph = "null"
  /\ preInterviewReport = "null"
  /\ inputData = <<>>
  /\ pcmBlob = <<>>
  /\ audioBuffer = <<>>
  /\ lastAct = Act("connectResolve", 1)

NextGapless ==
  \/ \E i \in Sessions, m \in ChunkMessages : DeliverChunk(i, m)
  \/ \E p \in pending : DecodeResolve(p)

SpecGapless == InitGapless /\ [][NextGapless]_vars

\* ------------------------------------------------ one session's transcript
\* The transcript of one session: the state startInterview, onopen and the
\* resolved connect leave, then transcript fragments of either role, a chunk
\* that carries a fragment, interrupted signals, the channel's close and
\* error events, and the passing of more than one coalescing window.
TranscriptMessages ==
  {m \in Messages :
     /\ m.dur = 1
     /\ \/ m.audio = "none" /\ m.tr # "none" /\ ~m.intr
        \/ m.audio = "none" /\ m.tr = "none" /\ m.intr
        \/ m.audio = "ok" /\ m.tr = "out" /\ m.text = <<"five">> /\ ~m.intr}

InitTranscript ==
  /\ status = "ACTIVE"
  /\ error = NoError
  /\ transcript = <<>>
  /\ isModelTalking = FALSE
  /\ nextStartTime = 0
  /\ activeSources = {}
  /\ sessionRef = 1
  /\ streamRef = 1
  /\ outputCtx = 1
  /\ ctxStart = [s \in Sessions |-> 0]
  /\ liveStreams = {1}
  /\ processors = {1}
  /\ sess = [s \in Sessions |->
               IF s = 1 THEN [pc |-> "done", chan |-> "open", opened |-> TRUE]
                        ELSE [pc |-> "none", chan |-> "none", opened |-> FALSE]]
  /\ started = 1
  /\ pending = {}
  /\ endedQueue = {}
  /\ now = 0
  /\ msgCount = 0
  /\ intCount = 0
  /\ log = <<>>
  /\ isAnalyzing = FALSE
  /\ isPreprocessing = FALSE
  /\ skillGraph = "null"
  /\ preInterviewReport = "null"
  /\ inputData = <<>>
  /\ pcmBlob = <<>>
  /\ audioBuffer = <<>>
  /\ lastAct = Act("connectResolve", 1)

NextTranscript ==
  \/ \E i \in Sessions, m \in TranscriptMessages : DeliverFragment(i, m)
  \/ \E p \in pending : DecodeResolve(p)
  \/ \E i \in Sessions : ChannelError(i)
  \/ \E i \in Sessions : ChannelClose(i)
  \/ WallTick

SpecTranscript == InitTranscript /\ [][NextTranscript]_vars

\* ------------------------------------------------------ the analysis calls
\* One session from its open channel to its end and back to the dashboard:
\* transcript fragments and a chunk that decodes, close and TERMINATE, then
\* the two collaborator calls with their outcomes.
AnalysisMessages ==
  {m \in Messages :
     /\ m.dur = 1 /\ m.text = <<"five">> /\ ~m.intr
     /\ \/ m.audio = "none" /\ m.tr \in {"out", "in"}
        \/ m.audio = "ok" /\ m.tr = "none"}

NextAnalysis ==
  \/ \E i \in Sessions, m \in AnalysisMessages : DeliverFragment(i, m)
  \/ \E p \in pending : DecodeResolve(p)
  \/ \E i \in Sessions : ChannelClose(i)
  \/ EndInterview
  \/ ReturnToDashboard
  \/ AnalyzeSkillGraph
  \/ SkillGraphResolve
  \/ SkillGraphReject
  \/ BackToTranscript
  \/ \E k \in BOOLEAN : AnalyzeArtifacts(k)
  \/ ArtifactsResolve
  \/ ArtifactsReject

SpecAnalysis == InitTranscript /\ [][NextAnalysis]_vars

\* ------------------------------------------------------ lifecycle, capture
\* The sessions' lifecycle with the capture callbacks and no inbound message.
NextCapture ==
  \/ \E k \in BOOLEAN : StartInterview(k)
  \/ \E i \in Sessions : MediaResolve(i)
  \/ \E i \in Sessions : MediaReject(i)
  \/ \E i \in Sessions : ChannelOpen(i)
  \/ \E i \in Sessions : ConnectResolve(i)
  \/ \E i \in Sessions : ConnectReject(i)
  \/ EndInterview
  \/ \E i \in Sessions : ChannelError(i)
  \/ \E i \in Sessions : ChannelClose(i)
  \/ ReturnToDashboard
  \/ \E i \in Sessions : AudioProcess(i)

SpecCapture == Init /\ [][NextCapture]_vars

\* ------------------------------------------------------- codec round trip
\* Every frame of FrameSamples samples, encoded and decoded back.
InitCodec ==
  /\ status = "IDLE"
  /\ error = NoError
  /\ transcript = <<>>
  /\ isModelTalking = FALSE
  /\ nextStartTime = 0
  /\ activeSources = {}
  /\ sessionRef = 0
  /\ streamRef = 0
  /\ outputCtx = 0
  /\ ctxStart = [s \in Sessions |-> 0]
  /\ liveStreams = {}
  /\ processors = {}
  /\ sess = [s \in Sessions |-> [pc |-> "none", chan |-> "none", opened |-> FALSE]]
  /\ started = 0
  /\ pending = {}
  /\ endedQueue = {}
  /\ now = 0
  /\ msgCount = 0
  /\ intCount = 0
  /\ log = <<>>
  /\ isAnalyzing = FALSE
  /\ isPreprocessing = FALSE
  /\ skillGraph = "null"
  /\ preInterviewReport = "null"
  /\ inputData \in Frames
  /\ pcmBlob = <<>>
  /\ audioBuffer = <<>>
  /\ lastAct = Act("init", 0)

NextCodec ==
  \/ CreateBlob
  \/ DecodeAudioData

SpecCodec == InitCodec /\ [][NextCodec]_vars

\* ================================================================ claims

\* C1: isModelTalking is true exactly when the active set is non-empty.
TalkingIffActive == isModelTalking <=> (activeSources # {})

\* C2: of two sources started one after the other in the same context with
\* no interrupted signal between them, the later one starts no earlier than
\* the earlier one's start plus its duration.
NoOverlap ==
  \A k \in 1..(Len(log) - 1) :
    (log[k].ctx = log[k + 1].ctx /\ log[k].enqEpoch = log[k + 1].enqEpoch)
      => log[k + 1].start >= log[k].start + log[k].dur

\* C3: nextStartTime never decreases in a step, except in a step that handles
\* an interrupted signal, which leaves it at 0.
CursorMonotone ==
  [][nextStartTime' >= nextStartTime \/ (lastAct'.intr /\ nextStartTime' = 0)]_vars

\* an interrupted signal was handled and took a positive cursor back to 0
CursorResetSeen == lastAct.intr /\ lastAct.dropped > 0 /\ nextStartTime = 0

\* C4: the step that handles an interrupted signal leaves the active set
\* empty, isModelTalking false and the cursor at 0, and the first source
\* started after an interrupted signal starts at its context's current time.
InterruptResets ==
  /\ lastAct.intr => (activeSources = {} /\ ~isModelTalking /\ nextStartTime = 0)
  /\ (lastAct.enq /\ lastAct.first)
       => log[Len(log)].start = CurrentTime(log[Len(log)].ctx)

\* a source was stopped by an interrupted signal while the cursor was ahead
\* of the clock, and the next source has started before that stale cursor
StartAfterInterruptSeen ==
  /\ lastAct.enq /\ lastAct.first
  /\ \E s \in endedQueue : s.when + s.dur > log[Len(log)].start

\* C5: no handler runs the interrupted branch, and no second handler enters
\* the audio branch, while a handler is suspended between raising the cursor
\* and adding its source to the active set.
EnqueueInterruptExclusive ==
  /\ Cardinality(pending) <= 1
  /\ lastAct.intr => pending = {}

\* C6: no source whose chunk arrived before an interrupted signal was handled
\* is in the active set after that signal.
NoStaleAudioAfterInterrupt ==
  \A s \in activeSources : s.epoch = intCount

\* C7: the step in which a chunk that fails to decode arrives leaves the
\* cursor, the active set, isModelTalking and the status as they were.
DecodeFailureLeavesState ==
  [][lastAct'.kind \in {"decodeThrow", "arriveFailing"}
       => /\ nextStartTime' = nextStartTime
          /\ activeSources' = activeSources
          /\ isModelTalking' = isModelTalking
          /\ status' = status]_vars

\* C8: of two chunks that arrived and were started with no interrupted signal
\* handled in between, the one that arrived first starts no later.
ArrivalOrderPlayback ==
  \A j, k \in 1..Len(log) :
    (/\ log[j].id < log[k].id
     /\ log[j].epoch = log[k].epoch
     /\ log[j].enqEpoch = log[j].epoch
     /\ log[k].enqEpoch = log[k].epoch)
      => log[j].start <= log[k].start

\* the sum of the durations of the first k started sources
RECURSIVE SumDur(_)
SumDur(k) == IF k = 0 THEN 0 ELSE log[k].dur + SumDur(k - 1)

\* C9: with chunks delivered back to back at reference time T0 to an idle
\* scheduler, the i-th source starts at T0 plus the durations of the sources
\* before it, and once every chunk is enqueued the cursor is T0 plus the sum
\* of all durations.
GaplessSequencing ==
  /\ \A k \in 1..Len(log) : log[k].start = CurrentTime(1) + SumDur(k - 1)
  /\ (Len(log) > 0 /\ pending = {})
       => nextStartTime = CurrentTime(1) + SumDur(Len(log))

\* three chunks were enqueued at a reference time after a stale cursor
GaplessRunSeen ==
  /\ Len(log) >= 3
  /\ pending = {}
  /\ now > 0
  /\ log[1].when > 0

\* C10: once the status is ENDED, no onopen, onclose, onerror or catch block
\* of the session moves it to another status.
EndedIsTerminal ==
  [][(/\ status = "ENDED"
      /\ lastAct'.kind \in {"onopen", "catch", "onclose", "onerror"}
      /\ lastAct'.sid = started)
       => status' = "ENDED"]_vars

\* C11: the step that ends a session, endInterview or onclose, leaves the
\* cursor at 0 and the active set empty.
SessionEndResetsScheduler ==
  [][lastAct'.kind \in {"endInterview", "onclose"}
       => (nextStartTime' = 0 /\ activeSources' = {})]_vars

\* C12: startInterview finds the transcript empty, and no callback of an
\* earlier session's channel changes the transcript, the cursor, the active
\* set or the status once a later session has started.
NewSessionIsFresh ==
  [][/\ lastAct'.kind = "start" => transcript' = <<>>
     /\ (/\ lastAct'.kind \in {"onopen", "onclose", "message", "arrive",
                                "arriveFailing", "decodeThrow", "enqueue"}
         /\ lastAct'.sid < started)
          => UNCHANGED <<transcript, nextStartTime, activeSources, status>>]_vars

\* C13: onerror of the current session while ACTIVE leaves the status ENDED,
\* an error message set, the session's microphone stream stopped and no
\* source in the active set.
ChannelErrorReleases ==
  [][(lastAct'.kind = "onerror" /\ lastAct'.sid = started /\ status = "ACTIVE")
       => /\ status' = "ENDED"
          /\ error' # NoError
          /\ lastAct'.sid \notin liveStreams'
          /\ activeSources' = {}]_vars

\* C14: the step in which getUserMedia rejects sets an error message and
\* leaves the status other than ACTIVE with no channel and no capture
\* processor for that attempt; from then on the attempt keeps having no
\* channel, so its onopen never runs.
MediaFailureSurfaced ==
  [][\A i \in Sessions :
       /\ (sess[i].pc = "media" /\ sess'[i].pc = "failed")
            => /\ error' # NoError
               /\ status' # "ACTIVE"
               /\ sess'[i].chan = "none"
               /\ i \notin processors'
       /\ (sess[i].pc = "failed" /\ sess[i].chan = "none")
            => /\ sess'[i] = sess[i]
               /\ ~(lastAct'.kind = "onopen" /\ lastAct'.sid = i)]_vars

MediaFailureSeen ==
  \E i \in Sessions :
    /\ sess[i].pc = "failed" /\ sess[i].chan = "none"
    /\ lastAct.kind = "catch" /\ lastAct.sid = i
    /\ error # NoError

\* the messages that carry one transcript fragment and nothing else, and the
\* role onmessage passes to updateTranscript for them
FragmentMessages ==
  {m \in Messages : m.audio = "none" /\ m.tr \in {"out", "in"} /\ ~m.intr}

RoleOf(m) == IF m.tr = "in" THEN "candidate" ELSE "interviewer"

\* the reference rule: the last segment exists, has the fragment's role and
\* was created less than the window ago: it is replaced by a segment with
\* the texts joined by one space, the same role and the original timestamp;
\* otherwise a new segment is appended
AppendRule(prev, role, text, t) ==
  LET n == Len(prev)
      fresh == [role |-> role, text |-> text, timestamp |-> t]
  IN  IF n = 0 THEN <<fresh>>
      ELSE IF prev[n].role # role THEN prev \o <<fresh>>
      ELSE IF t - prev[n].timestamp >= COALESCE_WINDOW THEN prev \o <<fresh>>
      ELSE SubSeq(prev, 1, n - 1) \o
             <<[role |-> role,
                text |-> prev[n].text \o <<" ">> \o text,
                timestamp |-> prev[n].timestamp]>>

\* C15: for every transcript and every fragment, the transcript onmessage
\* leaves is the one the reference rule gives.
UpdateTranscriptMatchesRule ==
  [][\A i \in Sessions, m \in FragmentMessages :
       OnMessage(i, m)
         => transcript' = AppendRule(transcript, RoleOf(m), m.text, DateNow)]_vars

\* a segment appended exactly one window after a segment of the same role,
\* then merged with a later fragment
WindowBoundarySeen ==
  /\ Len(transcript) = 2
  /\ transcript[1].role = transcript[2].role
  /\ transcript[2].timestamp - transcript[1].timestamp = COALESCE_WINDOW
  /\ Len(transcript[2].text) = 3

\* C16: a merge leaves the segment's timestamp as it was, and a fragment of
\* the last segment's role that arrives a window or more after that
\* segment's timestamp starts a new segment stamped with the arrival time.
WindowFromCreation ==
  [][\A i \in Sessions, m \in FragmentMessages :
       OnMessage(i, m) =>
         LET n == Len(transcript)
         IN  /\ (n > 0 /\ Len(transcript') = n)
                  => transcript'[n].timestamp = transcript[n].timestamp
             /\ (/\ n > 0
                 /\ transcript[n].role = RoleOf(m)
                 /\ DateNow - transcript[n].timestamp >= COALESCE_WINDOW)
                  => /\ Len(transcript') = n + 1
                     /\ transcript'[n] = transcript[n]
                     /\ transcript'[n + 1].timestamp = DateNow]_vars

\* fragments A and B merged into a segment stamped 0, and C of the same role
\* in a segment of its own stamped 3500
SplitAfterMergeSeen ==
  /\ Len(transcript) = 2
  /\ transcript[1].role = transcript[2].role
  /\ transcript[1].timestamp = 0
  /\ transcript[1].text = <<"five", " ", "six">>
  /\ transcript[2].timestamp = 3500
  /\ Len(transcript[2].text) = 1

\* C17: a fragment whose role differs from the last segment's role is
\* appended as a new segment, whatever time has passed, and the segments
\* before it stay as they were.
RoleChangeAppends ==
  [][\A i \in Sessions, m \in FragmentMessages :
       (OnMessage(i, m) /\ Len(transcript) > 0
          /\ transcript[Len(transcript)].role # RoleOf(m))
         => transcript' =
              Append(transcript, [role |-> RoleOf(m), text |-> m.text,
                                  timestamp |-> DateNow])]_vars

\* two adjacent segments of different roles created at the same instant
RoleChangeAtZeroSeen ==
  /\ Len(transcript) >= 2
  /\ transcript[Len(transcript)].role # transcript[Len(transcript) - 1].role
  /\ transcript[Len(transcript)].timestamp =
       transcript[Len(transcript) - 1].timestamp
  /\ lastAct.kind = "message"

\* C18: no step shortens the transcript, lengthens it by more than one or
\* changes a segment other than the last, and only a step of onmessage that
\* reaches the transcription dispatch changes it at all.
TranscriptAppendOnly ==
  [][/\ Len(transcript') \in {Len(transcript), Len(transcript) + 1}
     /\ \A k \in 1..(Len(transcript) - 1) : transcript'[k] = transcript[k]
     /\ lastAct'.kind \notin {"message", "enqueue"} => transcript' = transcript
    ]_vars

\* a merge into the last segment with an earlier segment in place, seen
\* after the channel closed or failed
MergeBehindPrefixSeen ==
  /\ Len(transcript) = 2
  /\ transcript[1].role # transcript[2].role
  /\ Len(transcript[2].text) = 3
  /\ lastAct.kind \in {"onclose", "onerror"}

\* C19: a message that carries only the interrupted signal leaves the
\* active set empty, the cursor 0 and isModelTalking false, queues an
\* 'ended' event for exactly the sources it stopped and sets no error, also
\* when no source is active; handled right after another interrupted signal
\* it changes nothing.
InterruptIdempotent ==
  [][(lastAct'.intr /\ lastAct'.kind = "message") =>
       /\ activeSources' = {}
       /\ nextStartTime' = 0
       /\ ~isModelTalking'
       /\ endedQueue' = endedQueue \cup activeSources
       /\ UNCHANGED <<status, error, transcript, pending>>
       /\ lastAct.intr =>
            UNCHANGED <<activeSources, nextStartTime, isModelTalking,
                        endedQueue>>]_vars

\* two messages were delivered, both interrupted signals, and the second
\* found no active source and the cursor at 0
SecondInterruptSeen ==
  /\ lastAct.intr /\ lastAct.kind = "message"
  /\ intCount = 2 /\ msgCount = 2
  /\ lastAct.nstopped = 0 /\ lastAct.dropped = 0

\* C20: when no onmessage handler is suspended, no source is in the active
\* set and no 'ended' event is outstanding, isModelTalking is false.
QuiescentNotTalking ==
  (pending = {} /\ activeSources = {} /\ endedQueue = {}) => ~isModelTalking

\* C21: a step of analyzeSkillGraph or analyzeArtifacts leaves the
\* transcript, the cursor, the active set and the status as they were, and
\* the step in which the call fails sets an error message and leaves no call
\* in flight.
AnalysisFailureFrame ==
  [][/\ lastAct'.kind \in {"analyzeSkillGraph", "skillGraphReject",
                           "analyzeArtifacts", "artifactsNoKey",
                           "artifactsReject"}
          => UNCHANGED <<transcript, nextStartTime, activeSources, status>>
     /\ lastAct'.kind = "skillGraphReject"
          => (error' # NoError /\ ~isAnalyzing' /\ skillGraph' = skillGraph)
     /\ lastAct'.kind = "artifactsReject"
          => /\ error' # NoError /\ ~isPreprocessing'
             /\ preInterviewReport' = preInterviewReport]_vars

\* analyzeSkillGraph has just failed on a session that left two segments,
\* a positive cursor and a source in the active set
SkillGraphFailureSeen ==
  /\ lastAct.kind = "skillGraphReject"
  /\ error # NoError
  /\ status = "ENDED"
  /\ Len(transcript) >= 2
  /\ nextStartTime > 0
  /\ activeSources # {}

\* C22: a frame captured by the processor of a session whose channel is
\* open, while the status is ACTIVE, is passed to that session's
\* sendRealtimeInput in the same callback.
FrameSentWhenCaptured ==
  [][(/\ lastAct'.kind = "audioprocess"
      /\ sess[lastAct'.sid].chan = "open"
      /\ status = "ACTIVE")
       => lastAct'.to = lastAct'.sid]_vars

\* C26: while the status is ENDED the capture callback calls no session's
\* sendRealtimeInput.
NoFrameAfterEnded ==
  [][(lastAct'.kind = "audioprocess" /\ status = "ENDED")
       => lastAct'.to = 0]_vars

\* C27: the step of endInterview leaves no channel connecting or open.
TerminateClosesChannel ==
  [][lastAct'.kind = "endInterview"
       => \A i \in Sessions : sess'[i].chan \notin {"connecting", "open"}]_vars

\* C29: the capture callback installed by a session's onopen never sends a
\* frame to the channel of a later session.
OwnPipelineOnly ==
  [][(lastAct'.kind = "audioprocess" /\ lastAct'.to # 0)
       => lastAct'.to <= lastAct'.sid]_vars

\* C23: a frame encoded and decoded back has as many samples as before;
\* a sample of 1.0 or more comes back as the largest 16-bit value, a sample
\* of -1.0 or less as the smallest, and no sample changes sign.
CodecSaturates ==
  audioBuffer # <<>> =>
    /\ Len(audioBuffer) = Len(inputData)
    /\ \A k \in 1..Len(inputData) :
         /\ inputData[k] >= SampleUnit => audioBuffer[k] = Int16Max
         /\ inputData[k] <= -SampleUnit => audioBuffer[k] = Int16Min
         /\ inputData[k] >= 0 => audioBuffer[k] >= 0
         /\ inputData[k] <= 0 => audioBuffer[k] <= 0

\* a frame whose samples are all 1.0 has been encoded and decoded back
FullScaleFrameDecoded ==
  /\ audioBuffer # <<>>
  /\ \A k \in 1..Len(inputData) :
       inputData[k] = SampleUnit /\ audioBuffer[k] = Int16Max

\* a segment of the given role was appended or changed by the step
SegmentTouched(role) ==
  \E k \in 1..Len(transcript') :
    /\ transcript'[k].role = role
    /\ (k > Len(transcript) \/ transcript'[k] # transcript[k])

\* C24: a message's output transcription reaches an interviewer segment
\* and its input transcription reaches a candidate segment, also when the
\* message carries both.
NoFragmentDropped ==
  [][\A i \in Sessions, m \in TranscriptMessages :
       (OnMessage(i, m) /\ m.audio = "none") =>
         /\ m.tr \in {"out", "both"} => SegmentTouched("interviewer")
         /\ m.tr \in {"in", "both"} => SegmentTouched("candidate")]_vars

\* C25: a message whose audio fails to decode and that carries the
\* interrupted flag still leaves the active set empty and the cursor at 0,
\* whether decode() throws or decodeAudioData rejects.
DecodeFailureKeepsRest ==
  [][/\ \A i \in Sessions, m \in Messages :
          (OnMessage(i, m) /\ m.audio = "throw" /\ m.intr)
            => (activeSources' = {} /\ nextStartTime' = 0)
     /\ \A p \in pending :
          (DecodeReject(p) /\ p.m.intr)
            => (activeSources' = {} /\ nextStartTime' = 0)]_vars

\* C28: the 'ended' event of a source stopped by an interrupted signal
\* removes no source from the active set and, while the set is not empty,
\* leaves isModelTalking as it was.
StaleEndedHarmless ==
  [][lastAct'.kind = "stoppedEnded" =>
       /\ activeSources' = activeSources
       /\ activeSources # {} => isModelTalking' = isModelTalking]_vars

\* a stale 'ended' event was delivered while a later source was active and
\* the agent marked as talking
StaleEndedWhilePlayingSeen ==
  /\ lastAct.kind = "stoppedEnded"
  /\ activeSources # {}
  /\ isModelTalking

\* C30: the timestamps of consecutive segments never decrease, and two
\* adjacent segments of the same role are at least a window apart.
TranscriptOrdered ==
  \A k \in 1..(Len(transcript) - 1) :
    /\ transcript[k + 1].timestamp >= transcript[k].timestamp
    /\ transcript[k + 1].role = transcript[k].role
         => transcript[k + 1].timestamp - transcript[k].timestamp
              >= COALESCE_WINDOW

\* three segments: two of one role a window or more apart, then one of the
\* other role created later
OrderedSegmentsSeen ==
  /\ Len(transcript) = 3
  /\ transcript[1].role = transcript[2].role
  /\ transcript[2].role # transcript[3].role
  /\ transcript[3].timestamp > transcript[2].timestamp

====
